---- MODULE Spec2Model ----
(***************************************************************************)
(* A model of mail-mcp-bridge: the Identifier Resolver (get_email_path),   *)
(* the Thread Assembler (get_thread_paths) and the relational index and    *)
(* archive-file store they read.                                           *)
(*                                                                         *)
(* Strings the code inspects character by character (Message-IDs) are      *)
(* sequences of one-character strings, so that startswith and strip are     *)
(* computed rather than assumed.                                           *)
(***************************************************************************)
EXTENDS Integers, Sequences, FiniteSets, TLC

\* ------------------------------------------------------------------ bounds
\* The largest number of rows of the messages table.
MaxRows == 2

\* ------------------------------------------------------- Message-ID strings
IdA == <<"<", "a", ">">>
IdB == <<"<", "b", ">">>
IdC == <<"<", "c", ">">>
BareA == <<"a">>

\* SQL NULL of a text column (Python None); like '' it is falsy and equals no
\* normalized key.
Null == <<>>

\* The Message-IDs the callers pass: bracketed, bare, and one no row carries.
SeedIds == {IdA, BareA, IdC}

\* message_id.startswith('<')
StartsWithLt(s) == Len(s) > 0 /\ s[1] = "<"

NormalizeIdVerbatim(s) == s

\* if not message_id.startswith('<'): message_id = f'<{message_id}>'
NormalizeId(s) == IF StartsWithLt(s) THEN s ELSE <<"<">> \o s \o <<">">>

\* --------------------------------------------------------- the mail store
\* mailboxes.url, by mailboxes.ROWID; 0 is a messages.mailbox that joins no
\* row (LEFT JOIN gives a NULL url).  A url is scheme://account/path, the path
\* already split at '/'.
NoUrl == [scheme |-> "", account |-> "", path |-> <<>>]

MailboxUrl(mb) ==
    CASE mb = 1 -> [scheme |-> "imap", account |-> "ACC", path |-> <<"INBOX">>]
      [] mb = 2 -> [scheme |-> "pop", account |-> "ACC", path |-> <<"INBOX">>]
      [] mb = 3 -> [scheme |-> "imap", account |-> "ACC", path |-> <<"", "Gone">>]
      [] OTHER -> NoUrl

MailboxIds == 0 .. 3

\* A directory below MAIL_V10_PATH: the account, then one "<part>.mbox" per
\* non-empty part of the mailbox path.
RECURSIVE MboxParts(_)
MboxParts(path) ==
    IF path = <<>> THEN <<>>
    ELSE IF Head(path) # ""
         THEN <<<<Head(path), "mbox">>>> \o MboxParts(Tail(path))
         ELSE MboxParts(Tail(path))

MboxPath(url) == <<<<url.account, "">>>> \o MboxParts(url.path)

\* The mailbox directories that exist on disk.
MboxDirs == {MboxPath(MailboxUrl(1)), MboxPath(MailboxUrl(2))}

\* messages.ROWID of the i-th row: 1, 12, 13, ...; the decimal digits of the
\* first are a prefix of the digits of the others.
RowIdAt(i) == IF i = 1 THEN 1 ELSE 10 + i

\* The rows a store may hold.  header is message_global_data.message_id_header
\* (Null when the join finds none), conv is messages.conversation_id, mailbox
\* is messages.mailbox, date is messages.date_sent; stored says whether the
\* archive file <ROWID>.emlx is on disk in the row's mailbox directory.
StoreRows ==
    { r \in [header : {IdA, IdB, Null}, conv : {0, 7}, mailbox : MailboxIds,
             date : {1, 2}, stored : BOOLEAN] :
        /\ r.stored => r.mailbox = 1
        /\ r.header = Null => (r.conv = 7 /\ r.stored /\ r.date = 1)
        /\ r.conv = 0 => (r.header = IdA /\ r.stored /\ r.date = 1)
        /\ r.mailbox # 1 => (r.header = IdA /\ r.date = 1)
        /\ r.header = IdB => r.stored }

Stores == UNION { [1 .. n -> StoreRows] : n \in 0 .. MaxRows }

IndexRow(s, i) ==
    [rowid |-> RowIdAt(i), header |-> s[i].header, conv |-> s[i].conv,
     mailbox |-> s[i].mailbox, date |-> s[i].date]

\* An archive file: its directory, the ROWID and the optional ".partial" of
\* its name, and the Message-Id header of the mail object it holds.
NoFile == [dir |-> <<>>, rowid |-> 0, partial |-> FALSE, msgid |-> Null]

ArchiveOf(s, i) ==
    [dir |-> MboxPath(MailboxUrl(s[i].mailbox)), rowid |-> RowIdAt(i),
     partial |-> FALSE, msgid |-> s[i].header]

VARIABLES
    indexExists,  \* MAIL_DB_PATH.exists()
    messages,     \* the rows of the index, in natural row order
    emlx,         \* the archive files on disk
    openConns,    \* sqlite3 connections opened and not yet closed
    fnName,       \* the index function now running: none, gep, conv, ids
    fnPc,         \* its position: query, find
    fnArg,        \* its (normalized) argument
    fnRow,        \* get_email_path: message_rowid and mbox_path
    thr,          \* the get_thread_paths call in progress or last made
    call,         \* the top-level call in progress or last made
    ret,          \* its outcome
    stats,        \* connections, queries and resolver calls of that call
    probe,        \* what the last get_email_path call saw
    parsed,       \* parse_email_file of the last resolved path
    attDirs,      \* the directories that exist, the attachment base among them
    attFiles,     \* the files in them
    aop,          \* the last extract_attachments or cleanup_attachments call
    xres,         \* the result of the last extract_attachments call
    cres,         \* the result of the last cleanup_attachments call
    made,         \* working directories and files extraction made, until a
                  \* cleanup names their message
    parseIn,      \* the archive file of the last parse_email_file call
    parseOut,     \* what that call returned
    hdrIn,        \* the header value of the last decode_header_value call
    hdrOut,       \* what that call returned, or raised
    tool          \* the call_tool request in progress or last answered

resolveVars == <<indexExists, messages, emlx, openConns, fnName, fnPc, fnArg,
                 fnRow, thr, call, ret, stats, probe, parsed>>

attachVars == <<attDirs, attFiles, aop, xres, cres, made>>

readVars == <<parseIn, parseOut, hdrIn, hdrOut>>

vars == <<resolveVars, attachVars, readVars, tool>>


\* ------------------------------------------------------------ result values
\* get_conversation_id returning None.
NoConv == -1

NoRow == [rowid |-> 0, mbox |-> <<>>]

IdleThr ==
    [active |-> FALSE, seed |-> Null, inf |-> FALSE, stage |-> "conv",
     convId |-> NoConv, rows |-> <<>>, msgIds |-> <<>>, i |-> 0,
     paths |-> <<>>, log |-> <<>>]

Pending(op) ==
    [op |-> op, kind |-> "pending", file |-> NoFile, conv |-> NoConv,
     ids |-> <<>>, paths |-> <<>>]

NoStats == [conns |-> 0, queries |-> 0, gepCalls |-> 0]

NoProbe == [matched |-> FALSE, row |-> NoRow, url |-> NoUrl, searched |-> FALSE,
            timedOut |-> FALSE]

NoParse == [done |-> FALSE, success |-> FALSE, message_id |-> Null]

Idle == fnName = "none" /\ ~thr.active

\* ------------------------------------------------------- the index queries
\* The WHERE clause left out: every row matches.
MatchingRowsNoWhere(mid) ==
    {i \in 1 .. Len(messages) : TRUE}

\* WHERE mgd.message_id_header = ?
MatchingRows(mid) ==
    {i \in 1 .. Len(messages) : messages[i].header = mid}

\* WHERE m.conversation_id = ?
ConversationRows(c) ==
    {i \in 1 .. Len(messages) : messages[i].conv = c}

\* ORDER BY m.date_sent ASC: the orders of a set of rows the query may give
\* (rows sent at the same time come in either order).
DateOrders(S) ==
    { o \in [1 .. Cardinality(S) -> S] :
        /\ \A j, k \in 1 .. Cardinality(S) : j # k => o[j] # o[k]
        /\ \A j, k \in 1 .. Cardinality(S) :
              j < k => messages[o[j]].date <= messages[o[k]].date }

\* [row[0] for row in results if row[0]], kept as row numbers
HasHeader(i) == messages[i].header # Null
WithHeader(o) == SelectSeq(o, HasHeader)

HeadersOf(o) == [j \in 1 .. Len(o) |-> messages[o[j]].header]

\* ------------------------------------------------------ the archive search
\* str(a) is a prefix of str(b), for decimal numerals
RECURSIVE IsDecPrefix(_, _)
IsDecPrefix(a, b) ==
    IF a = b THEN TRUE
    ELSE IF b < 10 THEN FALSE
    ELSE IsDecPrefix(a, b \div 10)

IsPathPrefix(p, q) ==
    /\ Len(p) <= Len(q)
    /\ \A j \in 1 .. Len(p) : p[j] = q[j]

\* -name '{message_rowid}*.emlx': the name starts with the digits of the
\* ROWID and ends in .emlx ("12.emlx" and "1.partial.emlx" both match 1).
NameMatches(rowid, f) == IsDecPrefix(rowid, f.rowid)

\* find <mbox_path> -name ...: every match in the directory and below it
FindFiles(mbox, rowid) ==
    {f \in emlx : IsPathPrefix(mbox, f.dir) /\ NameMatches(rowid, f)}

\* ------------------------------------------------------------ connections
\* The exists check left out.
IndexAvailableUnchecked == TRUE

\* MAIL_DB_PATH.exists()
IndexAvailable == indexExists

\* conn.close() before each return instead of in a finally block.
ConnAfterExitNoFinally(kind) ==
    IF kind = "value" THEN openConns - 1 ELSE openConns

\* finally: conn.close(), on a return and on a raise alike
ConnAfterExit(kind) == openConns - 1

\* ----------------------------------------------------- entering a function
\* The exists check has passed: connect, open a cursor, reach the query.
Enter(name, arg, st) ==
    /\ openConns' = openConns + 1
    /\ fnName' = name
    /\ fnPc' = "query"
    /\ fnArg' = arg
    /\ fnRow' = NoRow
    /\ stats' = [st EXCEPT !.conns = @ + 1,
                           !.gepCalls = IF name = "gep" THEN @ + 1 ELSE @]

\* raise FileNotFoundError, before any connection
RaiseMissing(op, st) ==
    /\ ret' = [Pending(op) EXCEPT !.kind = "FileNotFoundError"]
    /\ stats' = st
    /\ UNCHANGED <<openConns, fnName, fnPc, fnArg, fnRow>>

\* ------------------------------------------------------ get_thread_paths
\* paths.insert(0, ...) instead of paths.append(...)
PathsAfterPrepend(paths, f, inf) ==
    IF f # NoFile THEN <<f>> \o paths
    ELSE IF inf THEN <<NoFile>> \o paths
    ELSE paths

\* paths.append(file_path) / elif include_not_found: paths.append(None)
PathsAfter(paths, f, inf) ==
    IF f # NoFile THEN Append(paths, f)
    ELSE IF inf THEN Append(paths, NoFile)
    ELSE paths

\* if not conversation_id
NoConversation(c) == c = NoConv \/ c = 0

\* The function leaves: its connection is closed and no function is running.
Leave(kind) ==
    /\ openConns' = ConnAfterExit(kind)
    /\ fnName' = "none"
    /\ fnPc' = "query"
    /\ fnArg' = Null
    /\ fnRow' = NoRow

\* An exception leaves the running function and, uncaught, the thread call.
Raise(kind) ==
    /\ Leave(kind)
    /\ ret' = [ret EXCEPT !.kind = kind]
    /\ thr' = [thr EXCEPT !.active = FALSE]

\* get_email_path returns f (a file, or NoFile for None)
ReturnFile(f) ==
    /\ Leave("value")
    /\ IF thr.active
       THEN LET ps == PathsAfter(thr.paths, f, thr.inf)
                lg == Append(thr.log, [id |-> fnArg, file |-> f])
            IN IF thr.i < Len(thr.msgIds)
               THEN /\ thr' = [thr EXCEPT !.paths = ps, !.log = lg, !.i = @ + 1]
                    /\ ret' = ret
               ELSE /\ thr' = [thr EXCEPT !.paths = ps, !.log = lg,
                                          !.active = FALSE]
                    /\ ret' = [ret EXCEPT !.kind = "value", !.paths = ps]
       ELSE /\ ret' = [ret EXCEPT !.kind = "value", !.file = f]
            /\ thr' = thr

\* get_conversation_id returns c
ReturnConv(c) ==
    /\ Leave("value")
    /\ IF thr.active
       THEN IF NoConversation(c)
            THEN /\ thr' = [thr EXCEPT !.convId = c, !.active = FALSE]
                 /\ ret' = [ret EXCEPT !.kind = "value", !.paths = <<>>]
            ELSE /\ thr' = [thr EXCEPT !.convId = c, !.stage = "ids"]
                 /\ ret' = ret
       ELSE /\ ret' = [ret EXCEPT !.kind = "value", !.conv = c]
            /\ thr' = thr

\* get_thread_message_ids returns the headers of the rows o
ReturnIds(o) ==
    /\ Leave("value")
    /\ IF thr.active
       THEN IF HeadersOf(o) = <<>>
            THEN /\ thr' = [thr EXCEPT !.rows = o, !.msgIds = <<>>,
                                       !.active = FALSE]
                 /\ ret' = [ret EXCEPT !.kind = "value", !.paths = <<>>]
            ELSE /\ thr' = [thr EXCEPT !.rows = o, !.msgIds = HeadersOf(o),
                                       !.stage = "loop", !.i = 1]
                 /\ ret' = ret
       ELSE /\ ret' = [ret EXCEPT !.kind = "value", !.ids = HeadersOf(o)]
            /\ thr' = thr


\* ------------------------------------------------------- get_email_path
\* The early returns after fetchone: if not message_rowid or not mailbox_url;
\* if not mailbox_url.startswith('imap://'); if mbox_path.exists() fails.
Unresolvable(row) ==
    LET url == MailboxUrl(row.mailbox)
    IN \/ row.rowid = 0
       \/ url = NoUrl
       \/ url.scheme # "imap"
       \/ MboxPath(url) \notin MboxDirs

\* parse_email_file, as far as the message-id field: msg.get('Message-Id', '')
ParseEmailFile(f) ==
    IF f \notin emlx
    THEN [done |-> TRUE, success |-> FALSE, message_id |-> Null]
    ELSE [done |-> TRUE, success |-> TRUE, message_id |-> f.msgid]

NewCall(op, m, c, inf) ==
    [op |-> op, arg |-> m, conv |-> c, inf |-> inf, present |-> indexExists]

\* The index and the archive store as found, and no call made yet.
InitIndex(stores, flags) ==
    /\ indexExists \in flags
    /\ \E s \in stores :
          /\ messages = [i \in 1 .. Len(s) |-> IndexRow(s, i)]
          /\ emlx = {ArchiveOf(s, i) : i \in {j \in 1 .. Len(s) : s[j].stored}}
    /\ openConns = 0
    /\ fnName = "none"
    /\ fnPc = "query"
    /\ fnArg = Null
    /\ fnRow = NoRow
    /\ thr = IdleThr
    /\ call = [op |-> "none", arg |-> Null, conv |-> NoConv, inf |-> FALSE,
               present |-> FALSE]
    /\ ret = Pending("none")
    /\ stats = NoStats
    /\ probe = NoProbe
    /\ parsed = NoParse

\* get_email_path(m), up to the connection
CallGetEmailPath ==
    /\ Idle
    /\ \E m \in SeedIds :
          /\ call' = NewCall("gep", m, NoConv, FALSE)
          /\ IF IndexAvailable
             THEN Enter("gep", NormalizeId(m), NoStats) /\ ret' = Pending("gep")
             ELSE RaiseMissing("gep", NoStats)
    /\ thr' = IdleThr
    /\ probe' = NoProbe
    /\ parsed' = NoParse
    /\ UNCHANGED <<indexExists, messages, emlx>>
    /\ UNCHANGED <<attachVars, readVars, tool>>

\* get_conversation_id(m), up to the connection
CallGetConversationId ==
    /\ Idle
    /\ \E m \in SeedIds :
          /\ call' = NewCall("conv", m, NoConv, FALSE)
          /\ IF IndexAvailable
             THEN Enter("conv", NormalizeId(m), NoStats) /\ ret' = Pending("conv")
             ELSE RaiseMissing("conv", NoStats)
    /\ thr' = IdleThr
    /\ probe' = NoProbe
    /\ parsed' = NoParse
    /\ UNCHANGED <<indexExists, messages, emlx>>
    /\ UNCHANGED <<attachVars, readVars, tool>>

\* get_thread_message_ids(c), up to the connection
CallGetThreadMessageIds ==
    /\ Idle
    /\ \E c \in {0, 7} :
          /\ call' = NewCall("ids", Null, c, FALSE)
          /\ IF IndexAvailable
             THEN Enter("ids", c, NoStats) /\ ret' = Pending("ids")
             ELSE RaiseMissing("ids", NoStats)
    /\ thr' = IdleThr
    /\ probe' = NoProbe
    /\ parsed' = NoParse
    /\ UNCHANGED <<indexExists, messages, emlx>>
    /\ UNCHANGED <<attachVars, readVars, tool>>

\* get_thread_paths(m, include_not_found), up to the connection of its
\* get_conversation_id call
CallGetThreadPaths ==
    /\ Idle
    /\ \E m \in SeedIds, inf \in BOOLEAN :
          /\ call' = NewCall("thread", m, NoConv, inf)
          /\ IF IndexAvailable
             THEN /\ Enter("conv", NormalizeId(m), NoStats)
                  /\ ret' = Pending("thread")
                  /\ thr' = [IdleThr EXCEPT !.active = TRUE, !.seed = m,
                                            !.inf = inf]
             ELSE /\ RaiseMissing("thread", NoStats)
                  /\ thr' = [IdleThr EXCEPT !.seed = m, !.inf = inf]
    /\ probe' = NoProbe
    /\ parsed' = NoParse
    /\ UNCHANGED <<indexExists, messages, emlx>>
    /\ UNCHANGED <<attachVars, readVars, tool>>

\* get_thread_paths goes on to its next call: get_thread_message_ids, then
\* get_email_path for each Message-ID in turn
ThreadStep ==
    /\ thr.active
    /\ fnName = "none"
    /\ IF IndexAvailable
       THEN /\ IF thr.stage = "ids"
               THEN Enter("ids", thr.convId, stats)
               ELSE Enter("gep", NormalizeId(thr.msgIds[thr.i]), stats)
            /\ UNCHANGED <<ret, thr>>
       ELSE /\ RaiseMissing("thread", stats)
            /\ thr' = [thr EXCEPT !.active = FALSE]
    /\ probe' = IF thr.stage = "ids" THEN probe ELSE NoProbe
    /\ UNCHANGED <<indexExists, messages, emlx, call, parsed>>
    /\ UNCHANGED <<attachVars, readVars, tool>>

\* cursor.execute, fetchone and the returns that need no file search
QueryEmailPath ==
    /\ fnName = "gep"
    /\ fnPc = "query"
    /\ stats' = [stats EXCEPT !.queries = @ + 1]
    /\ IF MatchingRows(fnArg) = {}
       THEN /\ ReturnFile(NoFile)
            /\ probe' = NoProbe
       ELSE \E i \in MatchingRows(fnArg) :
               LET row == messages[i]
                   url == MailboxUrl(row.mailbox)
                   seen == [rowid |-> row.rowid, mbox |-> MboxPath(url)]
               IN /\ probe' = [NoProbe EXCEPT !.matched = TRUE, !.row = seen,
                                              !.url = url]
                  /\ IF Unresolvable(row)
                     THEN ReturnFile(NoFile)
                     ELSE /\ fnPc' = "find"
                          /\ fnRow' = seen
                          /\ UNCHANGED <<openConns, fnName, fnArg, ret, thr>>
    /\ UNCHANGED <<indexExists, messages, emlx, call, parsed>>
    /\ UNCHANGED <<attachVars, readVars, tool>>

\* subprocess.run(['find', ...]) ends in time: files[0] or None
FindArchive ==
    /\ fnName = "gep"
    /\ fnPc = "find"
    /\ probe' = [probe EXCEPT !.searched = TRUE]
    /\ IF FindFiles(fnRow.mbox, fnRow.rowid) = {}
       THEN ReturnFile(NoFile)
       ELSE \E f \in FindFiles(fnRow.mbox, fnRow.rowid) : ReturnFile(f)
    /\ UNCHANGED <<indexExists, messages, emlx, call, stats, parsed>>
    /\ UNCHANGED <<attachVars, readVars, tool>>

\* subprocess.run(..., timeout=10) raises TimeoutExpired
FindTimeout ==
    /\ fnName = "gep"
    /\ fnPc = "find"
    /\ probe' = [probe EXCEPT !.searched = TRUE, !.timedOut = TRUE]
    /\ Raise("TimeoutExpired")
    /\ UNCHANGED <<indexExists, messages, emlx, call, stats, parsed>>
    /\ UNCHANGED <<attachVars, readVars, tool>>

\* get_conversation_id: execute, fetchone, return
QueryConversationId ==
    /\ fnName = "conv"
    /\ stats' = [stats EXCEPT !.queries = @ + 1]
    /\ IF MatchingRows(fnArg) = {}
       THEN ReturnConv(NoConv)
       ELSE \E i \in MatchingRows(fnArg) : ReturnConv(messages[i].conv)
    /\ UNCHANGED <<indexExists, messages, emlx, call, probe, parsed>>
    /\ UNCHANGED <<attachVars, readVars, tool>>

\* get_thread_message_ids: execute, fetchall, return
QueryThreadMessageIds ==
    /\ fnName = "ids"
    /\ stats' = [stats EXCEPT !.queries = @ + 1]
    /\ \E o \in DateOrders(ConversationRows(fnArg)) : ReturnIds(WithHeader(o))
    /\ UNCHANGED <<indexExists, messages, emlx, call, probe, parsed>>
    /\ UNCHANGED <<attachVars, readVars, tool>>

\* parse_email_file on the path get_email_path returned
ParseResolved ==
    /\ Idle
    /\ call.op = "gep"
    /\ ret.kind = "value"
    /\ ret.file # NoFile
    /\ ~parsed.done
    /\ parsed' = ParseEmailFile(ret.file)
    /\ UNCHANGED <<indexExists, messages, emlx, openConns, fnName, fnPc, fnArg,
                   fnRow, thr, call, ret, stats, probe>>
    /\ UNCHANGED <<attachVars, readVars, tool>>

\* The mail store's index file disappears or comes back.
IndexToggles ==
    /\ indexExists' = ~indexExists
    /\ UNCHANGED <<messages, emlx, openConns, fnName, fnPc, fnArg, fnRow, thr,
                   call, ret, stats, probe, parsed>>
    /\ UNCHANGED <<attachVars, readVars, tool>>

NextResolve ==
    \/ CallGetEmailPath
    \/ CallGetConversationId
    \/ CallGetThreadMessageIds
    \/ CallGetThreadPaths
    \/ ThreadStep
    \/ QueryEmailPath
    \/ FindArchive
    \/ FindTimeout
    \/ QueryConversationId
    \/ QueryThreadMessageIds
    \/ ParseResolved
    \/ IndexToggles


\* =================================================================== claims
SeedUnknown(m) ==
    \A i \in 1 .. Len(messages) : messages[i].header # NormalizeId(m)

\* C1 (as claimed): with the index file present, get_email_path returns None
\* and never raises whenever no row matches the normalized Message-ID, the
\* fetched row lacks a row identifier or a mailbox URL, the URL is not an
\* imap:// URL, the mailbox directory does not exist, or no archive file in
\* it matches.
C1_NotFoundNeverRaises ==
    ( /\ call.op = "gep"
      /\ call.present
      /\ ret.kind # "pending"
      /\ \/ SeedUnknown(call.arg)
         \/ probe.row.rowid = 0
         \/ probe.url = NoUrl
         \/ probe.url.scheme # "imap"
         \/ probe.row.mbox \notin MboxDirs
         \/ FindFiles(probe.row.mbox, probe.row.rowid) = {} )
    => (ret.kind = "value" /\ ret.file = NoFile)

\* C2 (as claimed): parsing the file that get_email_path returned for a
\* Message-ID yields a message whose message-id field equals the normalized
\* Message-ID that was queried.
C2_RoundTrip ==
    (call.op = "gep" /\ parsed.done)
    => (parsed.success /\ parsed.message_id = NormalizeId(call.arg))

NotPlaceholder(f) == f # NoFile
LogFiles(lg) == [j \in 1 .. Len(lg) |-> lg[j].file]

\* C3: a returned get_thread_paths result holds the resolver's result for each
\* Message-ID of the seed's conversation, in ascending send-time order: with
\* include_not_found one entry per Message-ID at the same position (a path or
\* the placeholder), without it the same sequence less the placeholders.
C3_ThreadOrderPreserved ==
    (call.op = "thread" /\ ret.kind = "value" /\ thr.stage # "conv")
    => /\ \E i \in 1 .. Len(messages) :
             /\ messages[i].header = NormalizeId(call.arg)
             /\ messages[i].conv = thr.convId
       /\ {thr.rows[j] : j \in 1 .. Len(thr.rows)}
             = {i \in 1 .. Len(messages) :
                   messages[i].conv = thr.convId /\ messages[i].header # Null}
       /\ \A j, k \in 1 .. Len(thr.rows) :
             j < k => /\ thr.rows[j] # thr.rows[k]
                      /\ messages[thr.rows[j]].date <= messages[thr.rows[k]].date
       /\ thr.msgIds = [j \in 1 .. Len(thr.rows) |-> messages[thr.rows[j]].header]
       /\ Len(thr.log) = Len(thr.msgIds)
       /\ \A j \in 1 .. Len(thr.log) : thr.log[j].id = thr.msgIds[j]
       /\ call.inf => ret.paths = LogFiles(thr.log)
       /\ ~call.inf => ret.paths = SelectSeq(LogFiles(thr.log), NotPlaceholder)

\* A thread of two messages whose send-time order is the reverse of their row
\* order, returned with a placeholder and a file.
C3_Witness ==
    /\ call.op = "thread"
    /\ ret.kind = "value"
    /\ call.inf
    /\ Len(ret.paths) = 2
    /\ ret.paths[1] = NoFile
    /\ ret.paths[2] # NoFile
    /\ thr.rows[1] > thr.rows[2]

\* C7 (as claimed): a file search that exceeds the timeout makes
\* get_email_path return None, as when no file matches, without raising.
C7_TimeoutIsNotFound ==
    (call.op = "gep" /\ probe.timedOut)
    => (ret.kind = "value" /\ ret.file = NoFile)

\* C8: called while the index file is missing, get_email_path,
\* get_conversation_id and get_thread_message_ids raise FileNotFoundError
\* with no connection opened and no query executed, and that is the only way
\* they raise it; it is never a returned value.
C8_MissingIndexIsFatal ==
    (call.op \in {"gep", "conv", "ids"})
    => /\ ~call.present => /\ ret.kind = "FileNotFoundError"
                           /\ stats.conns = 0
                           /\ stats.queries = 0
                           /\ openConns = 0
       /\ ret.kind = "FileNotFoundError" => ~call.present

C8_Witness ==
    /\ call.op = "ids"
    /\ ~call.present
    /\ ret.kind = "FileNotFoundError"
    /\ Len(messages) > 0

\* C9: a connection is open exactly while an index function is between its
\* connect and its exit, so at most one is open at any moment and none once
\* the function has returned or raised.
C9_ConnectionsScoped ==
    openConns = (IF fnName = "none" THEN 0 ELSE 1)

\* A thread call that ended in the file-search timeout of its second resolver
\* call, every connection closed.
C9_Witness ==
    /\ call.op = "thread"
    /\ ret.kind = "TimeoutExpired"
    /\ stats.conns = 4
    /\ openConns = 0

\* C10: get_thread_paths for a seed no row carries, called with the index
\* file present, makes no get_email_path call and returns the empty list.
C10_UnknownSeedEmpty ==
    (call.op = "thread" /\ call.present /\ SeedUnknown(call.arg))
    => /\ stats.gepCalls = 0
       /\ ret.kind \in {"pending", "value"}
       /\ ret.kind = "value" => ret.paths = <<>>

C10_Witness ==
    /\ call.op = "thread"
    /\ call.present
    /\ SeedUnknown(call.arg)
    /\ Len(messages) = 2
    /\ ret.kind = "value"
    /\ ret.paths = <<>>


\* ==========================================================================
\* The attachment working area: extract_attachments and cleanup_attachments.
\* A path is a sequence of names, a name a sequence of characters.
\* ==========================================================================

\* bounds
\* The most MIME parts of a message, requested filenames of an extraction, and
\* Message-IDs of a cleanup call.
MaxParts == 2
MaxReq == 2
MaxList == 2

\* The most extraction and cleanup calls of one run.
MaxOps == 3

\* if not payload or len(payload) < 100
MinInline == 100

\* os.path.join(base_temp, 'mail-mcp-attachments'), base_temp being /tmp
TmpPath == << <<"tmp">> >>
BasePath == << <<"tmp">>, <<"mail-mcp-attachments">> >>

EmptyBr == <<"<", ">">>
NestedId == <<"<", "a", "/", "b", ">">>

\* Attachment filenames, as decoded.
NoName == <<>>
FnA == <<"a">>
FnSlash == <<"a", "/", "b">>
FnColon == <<"a", ":", "b">>

\* ---------------------------------------------------------------- strings
Brackets == {"<", ">"}

RECURSIVE LStrip(_)
LStrip(s) ==
    IF s # <<>> /\ Head(s) \in Brackets THEN LStrip(Tail(s)) ELSE s

RECURSIVE RStrip(_)
RStrip(s) ==
    IF s # <<>> /\ s[Len(s)] \in Brackets
    THEN RStrip(SubSeq(s, 1, Len(s) - 1))
    ELSE s

\* message_id.strip('<>')
StripBrackets(s) == RStrip(LStrip(s))

\* decoded_filename.replace('/', '_').replace('\\', '_').replace(':', '_')
Sanitize(name) ==
    [j \in 1 .. Len(name) |->
        IF name[j] \in {"/", "\\", ":"} THEN "_" ELSE name[j]]

\* decoded_filename.replace('/', '_').replace('\\', '_')
AltName(name) ==
    [j \in 1 .. Len(name) |->
        IF name[j] \in {"/", "\\"} THEN "_" ELSE name[j]]

\* The names of a relative path string: split at '/', the empty names and
\* "." dropped as pathlib drops them.
RECURSIVE SplitNames(_, _)
SplitNames(s, cur) ==
    LET done == IF cur = <<>> \/ cur = <<".">> THEN <<>> ELSE <<cur>>
    IN IF s = <<>> THEN done
       ELSE IF Head(s) = "/" THEN done \o SplitNames(Tail(s), <<>>)
       ELSE SplitNames(Tail(s), Append(cur, Head(s)))

\* Path(base_dir) / clean_message_id: a string that starts with '/' replaces
\* the base.
JoinPath(base, s) ==
    IF s # <<>> /\ Head(s) = "/" THEN SplitNames(s, <<>>)
    ELSE base \o SplitNames(s, <<>>)

\* The directory a path names once the system follows its ".." names.
RECURSIVE Resolve(_, _)
Resolve(path, acc) ==
    IF path = <<>> THEN acc
    ELSE IF Head(path) = <<".", ".">>
         THEN Resolve(Tail(path), IF acc = <<>> THEN acc
                                  ELSE SubSeq(acc, 1, Len(acc) - 1))
         ELSE Resolve(Tail(path), Append(acc, Head(path)))

\* message_dir = Path(base_dir) / message_id.strip('<>')
MessageDirLex(m) == JoinPath(BasePath, StripBrackets(m))
MessageDir(m) == Resolve(MessageDirLex(m), <<>>)

\* ------------------------------------------------------------- file system
FilePath(f) == Append(f.dir, f.name)

IsFileIn(files, p) == \E f \in files : FilePath(f) = p

Under(p, q) == IsPathPrefix(p, q)

Prefixes(p) == {SubSeq(p, 1, k) : k \in 0 .. Len(p)}

\* message_dir.mkdir(parents=True, exist_ok=True) raises when a file is in
\* the way
MkdirBlocked(files, p) == \E q \in Prefixes(p) : IsFileIn(files, q)

\* shutil.rmtree(message_dir) that leaves the directories in place
DirsAfterRemoveKept(dirs, p) == dirs

\* shutil.rmtree(message_dir): the directory and all below it
DirsAfterRemove(dirs, p) == {d \in dirs : ~Under(p, d)}
FilesAfterRemove(files, p) == {f \in files : ~Under(p, f.dir)}

\* message_dir.rglob('*') with item.is_file()
FilesBelow(files, p) == {f \in files : Under(p, f.dir)}

RECURSIVE SumSizes(_)
SumSizes(F) ==
    IF F = {} THEN 0
    ELSE LET f == CHOOSE x \in F : TRUE IN f.size + SumSizes(F \ {f})


\* mkdir(parents=True, exist_ok=True): the directory and every parent of it
DirsAfterMkdir(dirs, lex) ==
    dirs \cup UNION {Prefixes(Resolve(q, <<>>)) : q \in Prefixes(lex)}

\* ------------------------------------------------------ extract_attachments
\* A MIME part as msg.walk() gives it: content type, whether the
\* Content-Disposition holds 'attachment', the decoded filename (NoName when
\* get_filename() is None) and the length of get_payload(decode=True) (0 for
\* None or b'').
PartKinds ==
    { q \in [ctype : {"text/plain", "application/pdf"},
             disp : {"", "attachment"},
             fname : {NoName, FnA, FnSlash},
             size : {0, 50, 200}] :
        /\ q.fname = NoName =>
              (q.ctype = "application/pdf" /\ q.disp = "attachment" /\ q.size = 200)
        /\ q.ctype = "text/plain" => q.size = 200
        /\ (q.ctype = "text/plain" /\ q.disp = "") => q.fname = FnA
        /\ (q.ctype = "application/pdf" /\ q.fname # NoName) => q.disp = "" }

\* An archive file as extraction sees it: whether it exists, whether it has
\* fewer than two lines, and the parts of the message it holds.  staterr: the
\* stat() behind exists() fails with an OSError that exists() passes on (a
\* name too long, a directory that may not be searched).
MissingArchive ==
    [exists |-> FALSE, staterr |-> FALSE, short |-> FALSE, parts |-> <<>>]
UnreachableArchive == [MissingArchive EXCEPT !.staterr = TRUE]
ShortArchive ==
    [exists |-> TRUE, staterr |-> FALSE, short |-> TRUE, parts |-> <<>>]
MailOf(parts) ==
    [exists |-> TRUE, staterr |-> FALSE, short |-> FALSE, parts |-> parts]

Mails(kinds, n) == {MailOf(ps) : ps \in UNION {[1 .. k -> kinds] : k \in 0 .. n}}

Requests(names, n) == UNION {[1 .. k -> names] : k \in 0 .. n}

\* The sibling Attachments/<message number> directory: its child directories
\* in iterdir() order, each the set of files in it.
NoExt == <<>>
Exts ==
    { NoExt,
      << {[name |-> FnA, size |-> 300]} >>,
      << {}, {[name |-> AltName(FnSlash), size |-> 300]} >> }

\* Which write of a call fails with an OSError (0: none).
FailPoints == 0 .. 2

\* is_attachment
IsAttachment(q) ==
    \/ q.disp = "attachment"
    \/ (q.fname # NoName /\ q.ctype \notin {"text/plain", "text/html"})

HasFile(sub, n) == \E f \in sub : f.name = n
SizeOf(sub, n) == (CHOOSE f \in sub : f.name = n).size

\* The search of the child directories for the payload of `name`; `payload`
\* is the inline payload the search started with.
RECURSIVE Fallback(_, _, _, _)
Fallback(ext, j, name, payload) ==
    IF j > Len(ext) THEN payload
    ELSE IF HasFile(ext[j], name) THEN SizeOf(ext[j], name)
    ELSE IF payload = 0 /\ HasFile(ext[j], AltName(name))
         THEN SizeOf(ext[j], AltName(name))
    ELSE Fallback(ext, j + 1, name, payload)

\* payload = part.get_payload(decode=True), then the fallback search
PayloadOf(q, ext) ==
    IF q.size = 0 \/ q.size < MinInline
    THEN Fallback(ext, 1, q.fname, q.size)
    ELSE q.size

\* The payload written whatever its length.
HasPayloadAlways(payload) == TRUE

\* if payload:
HasPayload(payload) == payload # 0

\* filenames_set.clear() in place of the discard
PendingAfterAll(pending, name) == {}

\* filenames_set.discard(decoded_filename), left out
PendingAfterKept(pending, name) == pending

\* filenames_set.discard(decoded_filename)
PendingAfter(pending, name) == pending \ {name}

\* open(output_path, 'wb') raises: the path is a directory
WriteBlocked(dirs, mdir, safe) ==
    \/ safe = <<".">>
    \/ Resolve(Append(mdir, safe), <<>>) \in dirs

StartWalk(names, files) ==
    [pending |-> {names[j] : j \in 1 .. Len(names)}, extracted |-> <<>>,
     files |-> files, writes |-> 0, error |-> FALSE]

\* One part of the walk.
WalkPart(st, q, dirs, mdir, ext, wf) ==
    IF st.error \/ ~(IsAttachment(q) /\ q.fname # NoName) THEN st
    ELSE IF q.fname \notin st.pending THEN st
    ELSE IF ~HasPayload(PayloadOf(q, ext)) THEN st
    ELSE LET safe == Sanitize(q.fname)
             out == [dir |-> mdir, name |-> safe, size |-> PayloadOf(q, ext)]
         IN IF wf = st.writes + 1 \/ WriteBlocked(dirs, mdir, safe)
            THEN [st EXCEPT !.error = TRUE]
            ELSE [st EXCEPT
                    !.files = {f \in @ : FilePath(f) # FilePath(out)} \cup {out},
                    !.extracted = Append(@, [filename |-> q.fname,
                                             safe_filename |-> safe,
                                             mime_type |-> q.ctype,
                                             size_bytes |-> out.size]),
                    !.pending = PendingAfter(@, q.fname),
                    !.writes = @ + 1]

\* for part in msg.walk()
RECURSIVE WalkParts(_, _, _, _, _, _, _)
WalkParts(parts, j, st, dirs, mdir, ext, wf) ==
    IF j > Len(parts) THEN st
    ELSE WalkParts(parts, j + 1, WalkPart(st, parts[j], dirs, mdir, ext, wf),
                   dirs, mdir, ext, wf)

\* A failure record; raised: no record, the exception left the function.
Failure(msg) ==
    [success |-> FALSE, error |-> msg, extracted |-> <<>>, not_found |-> {},
     raised |-> FALSE]

\* file_path_obj.exists() is called before the try block
ExistsRaises(exc) == [Failure(exc) EXCEPT !.raised = TRUE]

NoCleanup ==
    [success |-> FALSE, error |-> "", cleaned |-> <<>>, not_found |-> <<>>,
     again |-> FALSE]

\* n counts the calls made so far; ext is the Attachments directory the
\* extraction saw, wrote the files it wrote, in order, and removed the
\* directories the cleanup removed.
NoOp ==
    [kind |-> "none", id |-> Null, names |-> <<>>, parts |-> <<>>, ids |-> <<>>,
     n |-> 0, ext |-> NoExt, wrote |-> <<>>, removed |-> {}]

\* except Exception as e: return {"success": False, ...}; nothing is removed
FilesAfterFailure(before, after) == after

\* extract_attachments(file_path, message_id, filenames)
DoExtract(m, ar, names, ext, wf) ==
    LET lex == MessageDirLex(m)
        mdir == MessageDir(m)
        dirs1 == DirsAfterMkdir(attDirs, lex)
        st == WalkParts(ar.parts, 1, StartWalk(names, attFiles), dirs1, mdir,
                        ext, wf)
        wrote == {[id |-> m, path |-> Append(mdir, st.extracted[j].safe_filename)] :
                     j \in 1 .. Len(st.extracted)}
        walked == /\ ~ar.staterr
                  /\ ar.exists
                  /\ names # <<>>
                  /\ ~ar.short
                  /\ ~MkdirBlocked(attFiles, mdir)
        written == IF walked
                   THEN [j \in 1 .. Len(st.extracted) |->
                           [dir |-> mdir,
                            name |-> st.extracted[j].safe_filename,
                            size |-> st.extracted[j].size_bytes]]
                   ELSE <<>>
    IN /\ aop' = [kind |-> "extract", id |-> m, names |-> names,
                  parts |-> ar.parts, ids |-> <<>>, n |-> aop.n + 1,
                  ext |-> ext, wrote |-> written, removed |-> {}]
       /\ cres' = NoCleanup
       /\ IF ar.staterr
          THEN /\ xres' = ExistsRaises("OSError")
               /\ UNCHANGED <<attDirs, attFiles, made>>
          ELSE IF ~ar.exists
          THEN /\ xres' = Failure("File not found")
               /\ UNCHANGED <<attDirs, attFiles, made>>
          ELSE IF names = <<>>
          THEN /\ xres' = Failure("No filenames specified for extraction")
               /\ UNCHANGED <<attDirs, attFiles, made>>
          ELSE IF ar.short
          THEN /\ xres' = Failure("Invalid file format or empty file")
               /\ UNCHANGED <<attDirs, attFiles, made>>
          ELSE IF MkdirBlocked(attFiles, mdir)
          THEN /\ xres' = Failure("Extraction failed")
               /\ UNCHANGED <<attDirs, attFiles, made>>
          ELSE /\ attDirs' = dirs1
               /\ attFiles' = IF st.error
                              THEN FilesAfterFailure(attFiles, st.files)
                              ELSE st.files
               /\ made' = [made EXCEPT !.ids = @ \cup {m}, !.files = @ \cup wrote]
               /\ xres' = IF st.error THEN Failure("Extraction failed")
                          ELSE [success |-> TRUE, error |-> "",
                                extracted |-> st.extracted,
                                not_found |-> st.pending, raised |-> FALSE]

ExtractOver(ids, archives, requests, exts, fails) ==
    \E m \in ids, ar \in archives, names \in requests, ext \in exts,
       wf \in fails : DoExtract(m, ar, names, ext, wf)


\* ------------------------------------------------------ cleanup_attachments
\* rmtree attempted whether or not the directory exists.
IsWorkingDirUnchecked(dirs, p) == TRUE

\* message_dir.exists() and message_dir.is_dir()
IsWorkingDir(dirs, p) == p \in dirs

StartClean ==
    [dirs |-> attDirs, files |-> attFiles, cleaned |-> <<>>,
     not_found |-> <<>>, removals |-> 0, error |-> FALSE]

\* One Message-ID of the loop; rf is the removal that raises (0: none), and
\* rmtree raises for a directory that is not there.
CleanStep(st, m, rf) ==
    LET p == MessageDir(m)
    IN IF st.error THEN st
       ELSE IF IsWorkingDir(st.dirs, p)
       THEN IF rf = st.removals + 1 \/ p \notin st.dirs
            THEN [st EXCEPT !.error = TRUE]
            ELSE [st EXCEPT
                    !.dirs = DirsAfterRemove(@, p),
                    !.files = FilesAfterRemove(@, p),
                    !.cleaned = Append(@,
                        [message_id |-> m,
                         files_removed |-> Cardinality(FilesBelow(st.files, p)),
                         size_freed |-> SumSizes(FilesBelow(st.files, p))]),
                    !.removals = @ + 1]
       ELSE [st EXCEPT !.not_found = Append(@, m)]

\* for message_id in message_ids
RECURSIVE CleanLoop(_, _, _, _)
CleanLoop(L, j, st, rf) ==
    IF j > Len(L) THEN st
    ELSE CleanLoop(L, j + 1, CleanStep(st, L[j], rf), rf)

\* A cleanup list names a message when it holds its Message-ID, with or
\* without the angle brackets.
Named(m, L) == \E j \in 1 .. Len(L) : NormalizeId(L[j]) = NormalizeId(m)

\* cleanup_attachments(message_ids)
DoCleanup(L, rf) ==
    LET st == CleanLoop(L, 1, StartClean, rf)
        again == aop.kind = "cleanup" /\ cres.success /\ aop.ids = L
        gone == IF BasePath \in attDirs THEN attDirs \ st.dirs ELSE {}
    IN /\ aop' = [NoOp EXCEPT !.kind = "cleanup", !.ids = L, !.n = aop.n + 1,
                             !.removed = gone]
       /\ xres' = Failure("")
       /\ made' = [ids |-> {m \in made.ids : ~Named(m, L)},
                   files |-> {r \in made.files : ~Named(r.id, L)}]
       /\ IF BasePath \notin attDirs
          THEN /\ cres' = [success |-> TRUE, error |-> "", cleaned |-> <<>>,
                           not_found |-> L, again |-> again]
               /\ UNCHANGED <<attDirs, attFiles>>
          ELSE /\ attDirs' = st.dirs
               /\ attFiles' = st.files
               /\ cres' = IF st.error
                          THEN [success |-> FALSE, error |-> "Failed to remove",
                                cleaned |-> <<>>, not_found |-> <<>>,
                                again |-> again]
                          ELSE [success |-> TRUE, error |-> "",
                                cleaned |-> st.cleaned,
                                not_found |-> st.not_found, again |-> again]

\* ------------------------------------------------------------------ actions
\* No file parsed, no header decoded and no tool called yet.
NoArchive ==
    [exists |-> FALSE, staterr |-> FALSE, readable |-> TRUE, multi |-> FALSE,
     subject |-> "plain", charset |-> "utf-8", lines |-> <<>>]

\* body_text = "": no text, taken from no part.
NoBody == [text |-> 0, how |-> "none"]

NoParsed ==
    [kind |-> "none", success |-> FALSE, error |-> "", raw |-> <<>>,
     body_text |-> NoBody, attachments |-> <<>>]

NoDecoded == [kind |-> "none", text |-> <<>>]

NoTool ==
    [name |-> "none", arg |-> Null, given |-> FALSE, isStr |-> TRUE,
     state |-> "idle", kind |-> "none", success |-> FALSE, error |-> ""]

InitRead ==
    /\ parseIn = NoArchive
    /\ parseOut = NoParsed
    /\ hdrIn = <<>>
    /\ hdrOut = NoDecoded
    /\ tool = NoTool

InitAttach ==
    /\ attDirs = {<<>>, TmpPath}
    /\ attFiles = {}
    /\ aop = NoOp
    /\ xres = Failure("")
    /\ cres = NoCleanup
    /\ made = [ids |-> {}, files |-> {}]

\* One extraction into an empty working area, over every message and request.
ExtractRich ==
    /\ aop.kind = "none"
    /\ ExtractOver({IdA},
                   Mails(PartKinds, MaxParts)
                      \cup {MissingArchive, UnreachableArchive, ShortArchive},
                   Requests({FnA, FnSlash}, MaxReq), Exts, FailPoints)
    /\ UNCHANGED <<resolveVars, readVars, tool>>

\* The Message-IDs whose working directories the life-cycle runs use.
LifeIds == {IdA, BareA, EmptyBr, NestedId}

PdfA == [ctype |-> "application/pdf", disp |-> "attachment", fname |-> FnA,
         size |-> 200]

\* An extraction of the one attachment of a message, for any of the ids; its
\* write may fail.
ExtractPlain ==
    /\ aop.n < MaxOps
    /\ ExtractOver(LifeIds, {MailOf(<<PdfA>>)}, {<<FnA>>}, {NoExt}, {0, 1})
    /\ UNCHANGED <<resolveVars, readVars, tool>>

\* A cleanup of any list of the ids; one of its removals may fail.
Cleanup ==
    /\ aop.n < MaxOps
    /\ \E L \in Requests(LifeIds, MaxList), rf \in FailPoints : DoCleanup(L, rf)
    /\ UNCHANGED <<resolveVars, readVars, tool>>

\* Attachment parts whose filenames differ only in '/' and ':'.
CollidingParts ==
    { [ctype |-> "application/pdf", disp |-> "attachment", fname |-> FnSlash,
       size |-> 200],
      [ctype |-> "application/pdf", disp |-> "attachment", fname |-> FnColon,
       size |-> 50],
      [ctype |-> "application/pdf", disp |-> "attachment", fname |-> FnColon,
       size |-> 200] }

\* One extraction, into an empty working area, of such parts.
ExtractColliding ==
    /\ aop.kind = "none"
    /\ ExtractOver({IdA}, Mails(CollidingParts, MaxParts),
                   Requests({FnSlash, FnColon}, MaxReq), {NoExt}, {0})
    /\ UNCHANGED <<resolveVars, readVars, tool>>

NextExtract ==
    \/ ExtractRich
    \/ ExtractColliding

NextAttach ==
    \/ ExtractPlain
    \/ Cleanup

Init == InitIndex(Stores, BOOLEAN) /\ InitAttach /\ InitRead

InitQuiet == InitIndex({<<>>}, {TRUE}) /\ InitAttach /\ InitRead

SpecResolve == Init /\ [][NextResolve]_vars

SpecExtract == InitQuiet /\ [][NextExtract]_vars

SpecAttach == InitQuiet /\ [][NextAttach]_vars

\* ------------------------------------------------------------------- claims
Range(q) == {q[j] : j \in 1 .. Len(q)}

ExtractedNames == {xres.extracted[j].filename : j \in 1 .. Len(xres.extracted)}

\* C4: in every successful extract_attachments result the filenames in
\* 'extracted' and those in 'not_found' are disjoint, and together they are
\* exactly the requested filenames.
C4_SetComplete ==
    (aop.kind = "extract" /\ xres.success)
    => /\ ExtractedNames \cap xres.not_found = {}
       /\ ExtractedNames \cup xres.not_found = Range(aop.names)

\* Two parts of the same filename, the first without a payload, requested by
\* a list that repeats the filename.
C4_Witness ==
    /\ aop.kind = "extract"
    /\ xres.success
    /\ Len(aop.parts) = 2
    /\ aop.parts[1].fname = aop.parts[2].fname
    /\ aop.parts[1].size = 0
    /\ Len(aop.names) = 2
    /\ aop.names[1] = aop.names[2]
    /\ Len(xres.extracted) = 1

C6_PersistsUntilNamed ==
    /\ \A m \in made.ids : MessageDir(m) \in attDirs
    /\ \A r \in made.files : IsFileIn(attFiles, r.path)

\* A walked part that gives a payload, inline or from the Attachments
\* directory, for the filename.
Yields(q, ext, name) ==
    /\ IsAttachment(q)
    /\ q.fname # NoName
    /\ q.fname = name
    /\ PayloadOf(q, ext) > 0

\* C11: in a successful extraction a requested filename is in 'extracted'
\* exactly when some walked attachment part of that decoded filename yields a
\* payload, inline or through the fallback, and every requested filename that
\* no part yields a payload for is in 'not_found'.
C11_ExtractedIffPayload ==
    (aop.kind = "extract" /\ xres.success)
    => \A name \in Range(aop.names) :
          LET matched == \E j \in 1 .. Len(aop.parts) :
                            Yields(aop.parts[j], aop.ext, name)
          IN /\ name \in ExtractedNames <=> matched
             /\ ~matched => name \in xres.not_found

\* Two filenames requested, the message holding a payload for the first only.
C11_Witness ==
    /\ aop.kind = "extract"
    /\ xres.success
    /\ aop.names = <<FnA, FnSlash>>
    /\ \A j \in 1 .. Len(aop.parts) : aop.parts[j].fname # FnSlash
    /\ ExtractedNames = {FnA}
    /\ xres.not_found = {FnSlash}

\* C16 (as claimed): an extraction that meets a filesystem or parse error
\* returns a failure result with an error text and never raises, and every
\* file the call wrote before the error is still on disk as written, in the
\* message's directory, which is not removed.
C16_NotTransactional ==
    (aop.kind = "extract" /\ ~xres.success)
    => /\ ~xres.raised
       /\ xres.error # ""
       /\ \A j \in 1 .. Len(aop.wrote) : aop.wrote[j] \in attFiles
       /\ aop.wrote # <<>> => MessageDir(aop.id) \in attDirs

\* The part of C16 about the files: nothing the failed call wrote is removed.
C16_WritesRemain ==
    (aop.kind = "extract" /\ ~xres.success)
    => /\ \A j \in 1 .. Len(aop.wrote) : aop.wrote[j] \in attFiles
       /\ aop.wrote # <<>> => MessageDir(aop.id) \in attDirs

\* The first file in the child directories, in their order, named by the
\* filename or by the filename with its path separators replaced (0: none).
RECURSIVE FirstFound(_, _, _)
FirstFound(ext, j, name) ==
    IF j > Len(ext) THEN 0
    ELSE IF HasFile(ext[j], name) THEN SizeOf(ext[j], name)
    ELSE IF HasFile(ext[j], AltName(name)) THEN SizeOf(ext[j], AltName(name))
    ELSE FirstFound(ext, j + 1, name)

\* C17 (as claimed): whenever the inline payload of a requested attachment is
\* missing or shorter than 100 bytes, the payload written is the first file
\* found in the child directories of the Attachments directory under the
\* decoded filename or under that filename with its path separators replaced
\* by underscores.
C17_FallbackEitherName ==
    (aop.kind = "extract" /\ xres.success)
    => \A j \in 1 .. Len(aop.parts) :
          LET q == aop.parts[j]
          IN ( /\ IsAttachment(q)
               /\ q.fname # NoName
               /\ q.fname \in Range(aop.names)
               /\ q.size < MinInline
               /\ FirstFound(aop.ext, 1, q.fname) # 0
               /\ \A k \in 1 .. j - 1 : aop.parts[k].fname # q.fname )
             => \E k \in 1 .. Len(xres.extracted) :
                   /\ xres.extracted[k].filename = q.fname
                   /\ xres.extracted[k].size_bytes
                         = FirstFound(aop.ext, 1, q.fname)


\* ==========================================================================
\* The Archive Reader and the MIME Tree Parser: parse_email_file.
\* ==========================================================================

\* The most lines of an archive file after its first.
MaxLines == 3

\* The opening tokens of the plist trailer.
Tokens == {"<?xml version", "<!DOCTYPE plist", "<plist version"}

NoPart == [ctype |-> "", disp |-> "", fname |-> NoName, size |-> 0]

\* The parts a message is made of, as msg.walk() gives them (see PartKinds);
\* the payload of a text part is named by its length.
ParseParts ==
    { [ctype |-> "text/plain", disp |-> "", fname |-> NoName, size |-> 0],
      [ctype |-> "text/plain", disp |-> "", fname |-> NoName, size |-> 50],
      [ctype |-> "text/plain", disp |-> "", fname |-> NoName, size |-> 200],
      [ctype |-> "text/plain", disp |-> "attachment", fname |-> FnA, size |-> 200],
      [ctype |-> "text/html", disp |-> "", fname |-> FnA, size |-> 50],
      [ctype |-> "application/pdf", disp |-> "attachment", fname |-> NoName,
       size |-> 200],
      [ctype |-> "application/pdf", disp |-> "", fname |-> FnA, size |-> 200] }

\* A line of an archive file: the trailer token it holds ("" for none) and the
\* part of the message it carries (NoPart for none).
SizeLine == [token |-> "", part |-> NoPart]

\* A line of the mail object that holds a token: text of the message that
\* quotes one, or the last bytes of a mail object that does not end in a
\* newline, the trailer opening on the same line.
TokenInMail ==
    [token |-> "<plist version",
     part |-> [ctype |-> "text/plain", disp |-> "", fname |-> NoName,
               size |-> 50]]

LineKinds ==
    {[token |-> t, part |-> NoPart] : t \in Tokens}
       \cup {[token |-> "", part |-> q] : q \in ParseParts}
       \cup {TokenInMail}

\* f.readlines() of the files parsed: empty, the size line alone, or the size
\* line and up to MaxLines lines after it.
LineLists ==
    {<<>>, <<SizeLine>>}
       \cup {<<SizeLine>> \o b : b \in UNION {[1 .. k -> LineKinds] : k \in 1 .. MaxLines}}

\* The archive files parsed.  staterr: see MissingArchive; readable: open()
\* does not raise; multi:
\* msg.is_multipart(); subject: whether decode_header takes the Subject header
\* or raises on it; charset: the charset the text parts declare.
Archives ==
    {NoArchive, [NoArchive EXCEPT !.staterr = TRUE],
     [NoArchive EXCEPT !.exists = TRUE, !.readable = FALSE]}
       \cup [exists : {TRUE}, staterr : {FALSE}, readable : {TRUE},
             multi : BOOLEAN,
             subject : {"plain", "malformed"}, charset : {"utf-8", "bogus"},
             lines : LineLists]

\* for line in lines[1:]: the trailer lines skipped and the reading continued
RECURSIVE AccumulateSkipping(_)
AccumulateSkipping(lines) ==
    IF lines = <<>> THEN <<>>
    ELSE IF Head(lines).token \in Tokens THEN AccumulateSkipping(Tail(lines))
    ELSE <<Head(lines)>> \o AccumulateSkipping(Tail(lines))

\* for line in lines[1:]: break at a line that holds a token, else append
RECURSIVE Accumulate(_)
Accumulate(lines) ==
    IF lines = <<>> THEN <<>>
    ELSE IF Head(lines).token \in Tokens THEN <<>>
    ELSE <<Head(lines)>> \o Accumulate(Tail(lines))

\* lines[1:], read up to the trailer
ReadRaw(lines) == Accumulate(Tail(lines))

CarriesPart(l) == l.part # NoPart

\* email.message_from_bytes(raw_content): the parts, in walk order
PartsOf(raw) ==
    LET ls == SelectSeq(raw, CarriesPart) IN [j \in 1 .. Len(ls) |-> ls[j].part]

\* is_attachment, as parse_email_file computes it
IsAttachmentPart(q) ==
    \/ q.disp = "attachment"
    \/ (q.fname # NoName /\ q.ctype \notin {"text/plain", "text/html"})

\* payload.decode(charset), on failure payload.decode('utf-8', errors='replace')
DecodeBody(size, charset) ==
    IF charset = "utf-8" THEN [text |-> size, how |-> "strict"]
    ELSE [text |-> size, how |-> "replace"]

\* not body_text
BodyUnset(body) == body.text = 0

\* An attachment entry dropped when its filename is already listed.
AttachmentsAfterDedup(atts, q) ==
    IF \E j \in 1 .. Len(atts) : atts[j].filename = q.fname THEN atts
    ELSE Append(atts, [filename |-> q.fname, mime_type |-> q.ctype,
                       size_bytes |-> q.size])

\* attachments.append({...})
AttachmentsAfter(atts, q) ==
    Append(atts, [filename |-> q.fname, mime_type |-> q.ctype,
                  size_bytes |-> q.size])

\* One part of the walk of a multipart message.
ParsePart(st, q, charset) ==
    IF IsAttachmentPart(q)
    THEN IF q.fname # NoName
         THEN [st EXCEPT !.attachments = AttachmentsAfter(@, q)]
         ELSE st
    ELSE IF q.ctype = "text/plain" /\ BodyUnset(st.body)
    THEN IF q.size # 0
         THEN [st EXCEPT !.body = DecodeBody(q.size, charset)]
         ELSE st
    ELSE st

\* for part in msg.walk()
RECURSIVE ParseWalk(_, _, _, _)
ParseWalk(parts, j, st, charset) ==
    IF j > Len(parts) THEN st
    ELSE ParseWalk(parts, j + 1, ParsePart(st, parts[j], charset), charset)

\* The single-part branch: the message is its own only part.
ParseSingle(parts, charset) ==
    LET q == IF parts = <<>>
             THEN [NoPart EXCEPT !.ctype = "text/plain"]
             ELSE parts[1]
    IN IF q.ctype = "text/plain"
       THEN IF q.size # 0 THEN DecodeBody(q.size, charset) ELSE NoBody
       ELSE [text |-> q.size, how |-> "raw"]

\* except Exception as e
ParseCaught(exc) == TRUE

\* An exception inside the try block: the failure record, or the exception
\* itself where no clause catches it.
ParseRaised(exc, raw) ==
    IF ParseCaught(exc)
    THEN [NoParsed EXCEPT !.kind = "value", !.error = "Parse failed",
                          !.raw = raw]
    ELSE [NoParsed EXCEPT !.kind = "raised", !.error = exc, !.raw = raw]

\* parse_email_file(file_path); file_path_obj.exists() is called before the
\* try block
ParseOf(ar) ==
    LET raw == ReadRaw(ar.lines)
        parts == PartsOf(raw)
        st == ParseWalk(parts, 1, [body |-> NoBody, attachments |-> <<>>],
                        ar.charset)
    IN IF ar.staterr
       THEN [NoParsed EXCEPT !.kind = "raised", !.error = "OSError"]
       ELSE IF ~ar.exists
       THEN [NoParsed EXCEPT !.kind = "value", !.error = "File not found"]
       ELSE IF ~ar.readable THEN ParseRaised("OSError", <<>>)
       ELSE IF Len(ar.lines) < 2
       THEN [NoParsed EXCEPT !.kind = "value",
                             !.error = "Invalid file format or empty file"]
       ELSE IF ar.subject = "malformed" THEN ParseRaised("HeaderParseError", raw)
       ELSE IF ar.multi
       THEN [kind |-> "value", success |-> TRUE, error |-> "", raw |-> raw,
             body_text |-> st.body, attachments |-> st.attachments]
       ELSE [kind |-> "value", success |-> TRUE, error |-> "", raw |-> raw,
             body_text |-> ParseSingle(parts, ar.charset),
             attachments |-> <<>>]

\* One call of parse_email_file, on any of the archive files.
ParseFile ==
    /\ parseOut.kind = "none"
    /\ \E ar \in Archives :
          /\ parseIn' = ar
          /\ parseOut' = ParseOf(ar)
    /\ UNCHANGED <<resolveVars, attachVars, hdrIn, hdrOut, tool>>

NextParse == ParseFile

SpecParse == InitQuiet /\ [][NextParse]_vars

\* ------------------------------------------------------------ parser claims
Parsed == parseOut.kind = "value" /\ parseOut.success

WalkedParts == PartsOf(parseOut.raw)

PlainBodyPart(q) == q.ctype = "text/plain" /\ ~IsAttachmentPart(q)

PlainBodyParts == {j \in 1 .. Len(WalkedParts) : PlainBodyPart(WalkedParts[j])}

\* C12 (as claimed): the body of a parsed multi-part message is the text of
\* the first part, in walk order, that is plain text and not an attachment,
\* whatever that part holds, an empty payload included; later plain-text
\* parts are not used.
C12_FirstPlainPartIsBody ==
    (Parsed /\ parseIn.multi)
    => IF PlainBodyParts = {}
       THEN parseOut.body_text.text = 0
       ELSE LET first == CHOOSE j \in PlainBodyParts :
                            \A k \in PlainBodyParts : j <= k
            IN parseOut.body_text.text = WalkedParts[first].size

EntryOf(q) == [filename |-> q.fname, mime_type |-> q.ctype, size_bytes |-> q.size]

EntriesOf(parts) == [j \in 1 .. Len(parts) |-> EntryOf(parts[j])]

NamedAttachment(q) == IsAttachmentPart(q) /\ q.fname # NoName

\* C13 (as claimed): the attachments list of a parsed multi-part message has
\* exactly one entry for every part classified as an attachment, in walk
\* order, wherever the body part is, entries of equal filenames all kept.
C13_EveryAttachmentListed ==
    (Parsed /\ parseIn.multi)
    => parseOut.attachments = EntriesOf(SelectSeq(WalkedParts, IsAttachmentPart))

\* C13 (amended): the attachments list of a parsed multi-part message has
\* exactly one entry for every part that is classified as an attachment and
\* carries a filename, in walk order, wherever the body part is, entries of
\* equal filenames all kept; a part classified as an attachment that carries
\* no filename has no entry.
C13_NamedAttachmentsListed ==
    (Parsed /\ parseIn.multi)
    => parseOut.attachments = EntriesOf(SelectSeq(WalkedParts, NamedAttachment))

\* Two attachments of one filename, the body part between them.
C13_Witness ==
    /\ Parsed
    /\ parseIn.multi
    /\ Len(WalkedParts) = 3
    /\ PlainBodyPart(WalkedParts[2])
    /\ parseOut.body_text.text = WalkedParts[2].size
    /\ Len(parseOut.attachments) = 2
    /\ parseOut.attachments[1].filename = parseOut.attachments[2].filename

\* C14: the raw message read from an archive file of two lines or more is
\* the lines after the first, in order, up to the first of them that holds a
\* trailer token: it holds neither that line nor any line after it, and all
\* the lines after the first when none holds a token.
C14_ReaderStopsAtTrailer ==
    (parseIn.exists /\ parseIn.readable /\ Len(parseIn.lines) >= 2)
    => LET rest == SubSeq(parseIn.lines, 2, Len(parseIn.lines))
           raw == parseOut.raw
       IN /\ Len(raw) <= Len(rest)
          /\ \A j \in 1 .. Len(raw) : raw[j] = rest[j] /\ raw[j].token \notin Tokens
          /\ Len(raw) < Len(rest) => rest[Len(raw) + 1].token \in Tokens
          /\ (\A j \in 1 .. Len(rest) : rest[j].token \notin Tokens) => raw = rest

\* A trailer line between two lines of the message.
C14_Witness ==
    /\ Len(parseIn.lines) = 4
    /\ parseIn.lines[3].token \in Tokens
    /\ CarriesPart(parseIn.lines[4])
    /\ parseOut.kind = "value"
    /\ parseOut.raw = <<parseIn.lines[2]>>

\* C15 (as claimed): parse_email_file never raises; for any path it returns
\* a success record or a failure record with an error text.
C15_ParseNeverRaises ==
    parseOut.kind # "none"
    => /\ parseOut.kind = "value"
       /\ ~parseOut.success => parseOut.error # ""


\* ==========================================================================
\* The Header Decoder: decode_header_value.
\* ==========================================================================

\* The most chunks of a header value.
MaxSegs == 3

\* A header value as email.header.decode_header splits it into (content,
\* encoding) chunks.  enc is the declared charset ("" for literal text between
\* encoded words); bytes says whether the content decodes in that charset;
\* b64 is FALSE for an encoded word whose base64 text decode_header rejects.
\* "bogus" is a charset Python does not know, "idna" a codec whose decoder
\* reports bad input with UnicodeError, not UnicodeDecodeError.
Literal == [enc |-> "", bytes |-> "valid", b64 |-> TRUE]

SegKinds ==
    { Literal,
      [enc |-> "utf-8", bytes |-> "valid", b64 |-> TRUE],
      [enc |-> "utf-8", bytes |-> "invalid", b64 |-> TRUE],
      [enc |-> "utf-8", bytes |-> "valid", b64 |-> FALSE],
      [enc |-> "bogus", bytes |-> "valid", b64 |-> TRUE],
      [enc |-> "idna", bytes |-> "valid", b64 |-> TRUE],
      [enc |-> "idna", bytes |-> "invalid", b64 |-> TRUE] }

\* The header values decoded; <<>> is '' or None.
HeaderValues == UNION {[1 .. k -> SegKinds] : k \in 0 .. MaxSegs}

\* content.decode(encoding): its result, or the exception it raises
StrictDecode(seg) ==
    IF seg.enc = "bogus" THEN "LookupError"
    ELSE IF seg.bytes = "valid" THEN "ok"
    ELSE IF seg.enc = "idna" THEN "UnicodeError"
    ELSE "UnicodeDecodeError"

\* One (content, encoding) pair of the loop: the text appended and how it was
\* decoded, or the exception that leaves the loop.
DecodeSeg(seg) ==
    IF seg.enc = "" THEN [seg |-> seg, how |-> "literal"]
    ELSE IF StrictDecode(seg) = "ok" THEN [seg |-> seg, how |-> "strict"]
    ELSE IF StrictDecode(seg) \in {"LookupError", "UnicodeDecodeError"}
    THEN [seg |-> seg, how |-> "replace"]
    ELSE [seg |-> seg, how |-> StrictDecode(seg)]

Escapes(piece) == piece.how \notin {"literal", "strict", "replace"}

\* decode_header_value(value)
DecodeHeaderValue(value) ==
    LET pieces == [j \in 1 .. Len(value) |-> DecodeSeg(value[j])]
    IN IF value = <<>> THEN [kind |-> "value", text |-> <<>>]
       ELSE IF \E j \in 1 .. Len(value) : ~value[j].b64
       THEN [kind |-> "HeaderParseError", text |-> <<>>]
       ELSE IF \E j \in 1 .. Len(value) : Escapes(pieces[j])
       THEN [kind |-> "UnicodeError", text |-> <<>>]
       ELSE [kind |-> "value", text |-> pieces]

\* One call of decode_header_value, on any of the header values.
DecodeHeader ==
    /\ hdrOut.kind = "none"
    /\ \E v \in HeaderValues :
          /\ hdrIn' = v
          /\ hdrOut' = DecodeHeaderValue(v)
    /\ UNCHANGED <<resolveVars, attachVars, parseIn, parseOut, tool>>

NextDecode == DecodeHeader

SpecDecode == InitQuiet /\ [][NextDecode]_vars

\* C19 (as claimed): decode_header_value never raises; an empty or absent
\* value gives the empty string, every encoded segment whose charset is
\* unknown or whose decoding fails is decoded as UTF-8 with replacement, and
\* the decoded and literal segments are joined in their order.
C19_DecoderNeverRaises ==
    hdrOut.kind # "none"
    => /\ hdrOut.kind = "value"
       /\ Len(hdrOut.text) = Len(hdrIn)
       /\ \A j \in 1 .. Len(hdrIn) :
             /\ hdrOut.text[j].seg = hdrIn[j]
             /\ (hdrIn[j].enc # "" /\ StrictDecode(hdrIn[j]) # "ok")
                   => hdrOut.text[j].how = "replace"


\* ==========================================================================
\* The lookup key, and the transport boundary: call_tool.
\* ==========================================================================
EndsWithGt(s) == Len(s) > 0 /\ s[Len(s)] = ">"

\* The identifier between the angle brackets of a Message-ID that has them.
BareId(s) ==
    IF StartsWithLt(s) /\ EndsWithGt(s) THEN SubSeq(s, 2, Len(s) - 1) ELSE s

\* C18: the key get_email_path and get_conversation_id query the index with,
\* for a Message-ID given with or without its angle brackets, starts with
\* '<' and ends with '>', is left as it is by a second normalization, and
\* holds between the brackets the caller's identifier unchanged, so both
\* forms of a Message-ID give one key.
C18_CanonicalKey ==
    fnName \in {"gep", "conv"}
    => /\ StartsWithLt(fnArg)
       /\ EndsWithGt(fnArg)
       /\ NormalizeId(fnArg) = fnArg
       /\ (thr.active => thr.stage \in {"conv", "loop"})
       /\ (~thr.active \/ thr.stage = "conv")
             => /\ BareId(fnArg) = BareId(call.arg)
                /\ StartsWithLt(call.arg) => fnArg = call.arg
       /\ (thr.active /\ thr.stage = "loop")
             => BareId(fnArg) = BareId(thr.msgIds[thr.i])

\* A bare Message-ID looked up under the key of its bracketed form, which a
\* row carries.
C18_Witness ==
    /\ fnName = "gep"
    /\ call.op = "gep"
    /\ call.arg = BareA
    /\ fnArg = IdA
    /\ \E i \in 1 .. Len(messages) : messages[i].header = fnArg

\* ---------------------------------------------------------------- call_tool
\* The rows of the index in the tool calls: one conversation, one mailbox.
ToolRows ==
    {r \in StoreRows : r.header # Null /\ r.conv = 7 /\ r.mailbox = 1 /\ r.date = 1}

ToolStores == UNION {[1 .. n -> ToolRows] : n \in 0 .. MaxRows}

ToolNames == {"get_email_path", "get_thread_paths", "read_email", "read_thread"}

\* arguments.get("message_id"): a Message-ID, a value that is falsy (absent,
\* None, ''), or a truthy value that is not a string.
ToolArgs ==
    {[id |-> BareA, given |-> TRUE, isStr |-> TRUE],
     [id |-> IdC, given |-> TRUE, isStr |-> TRUE],
     [id |-> Null, given |-> FALSE, isStr |-> TRUE],
     [id |-> Null, given |-> TRUE, isStr |-> FALSE]}

\* What parse_email_file does with a path the core returned: a parsed
\* message, its own failure envelope, or an exception.
ParseOutcomes == {"parsed", "failed", "OSError"}

\* The core function of a tool.
CoreOf(name) ==
    IF name \in {"get_email_path", "read_email"} THEN "gep" ELSE "thread"

\* return [TextContent(type="text", text="Error: ...")]
TextResponse(t, msg) ==
    [t EXCEPT !.state = "done", !.kind = "text", !.success = FALSE,
              !.error = msg]

\* json.dumps(result) with "success": True
SuccessResponse(t) ==
    [t EXCEPT !.state = "done", !.kind = "json", !.success = TRUE, !.error = ""]

\* json.dumps(result) with "success": False and "error": msg
FailureResponse(t, msg) ==
    [t EXCEPT !.state = "done", !.kind = "json", !.success = FALSE,
              !.error = msg]

\* The exception leaves call_tool.
Propagated(t, exc) ==
    [t EXCEPT !.state = "done", !.kind = "raised", !.success = FALSE,
              !.error = exc]

\* except FileNotFoundError as e: any other exception propagates
ToolCaughtMissingOnly(exc) == exc = "FileNotFoundError"

\* except Exception as e: every exception but those outside Exception
ToolCaught(exc) == exc \notin {"KeyboardInterrupt", "SystemExit"}

\* The except clause of a tool, for the exception exc.
Handled(t, exc) ==
    IF ToolCaught(exc) THEN FailureResponse(t, exc) ELSE Propagated(t, exc)

\* get_single_email_path(message_id) / get_all_thread_paths(message_id,
\* include_not_found=False) begins.
StartCore(op, m) ==
    /\ call' = NewCall(op, m, NoConv, FALSE)
    /\ IF IndexAvailable
       THEN /\ Enter(IF op = "gep" THEN "gep" ELSE "conv", NormalizeId(m), NoStats)
            /\ ret' = Pending(op)
            /\ thr' = IF op = "thread"
                      THEN [IdleThr EXCEPT !.active = TRUE, !.seed = m]
                      ELSE IdleThr
       ELSE /\ RaiseMissing(op, NoStats)
            /\ thr' = IF op = "thread" THEN [IdleThr EXCEPT !.seed = m]
                      ELSE IdleThr
    /\ probe' = NoProbe
    /\ parsed' = NoParse
    /\ UNCHANGED <<indexExists, messages, emlx>>

\* call_tool(name, arguments) up to the call of the core.
ToolCall ==
    /\ Idle
    /\ tool.state # "core"
    /\ \E name \in ToolNames \cup {"other"}, a \in ToolArgs :
          LET t == [NoTool EXCEPT !.name = name, !.arg = a.id,
                                  !.given = a.given, !.isStr = a.isStr]
          IN IF name \notin ToolNames
             THEN /\ tool' = TextResponse(t, "Error: Unknown tool")
                  /\ UNCHANGED resolveVars
             ELSE IF ~a.given
             THEN /\ tool' = TextResponse(t, "Error: Missing message_id parameter")
                  /\ UNCHANGED resolveVars
             ELSE IF ~a.isStr
             THEN /\ tool' = Handled(t, "AttributeError")
                  /\ UNCHANGED resolveVars
             ELSE /\ tool' = [t EXCEPT !.state = "core"]
                  /\ StartCore(CoreOf(name), a.id)
    /\ UNCHANGED <<attachVars, readVars>>

\* The envelope of a tool whose core returned.
Envelope(t, po) ==
    IF t.name = "get_email_path"
    THEN IF ret.file # NoFile THEN SuccessResponse(t)
         ELSE FailureResponse(t, "Email file not found")
    ELSE IF t.name = "get_thread_paths"
    THEN IF ret.paths # <<>> THEN SuccessResponse(t)
         ELSE FailureResponse(t, "Email thread not found or thread has no email files")
    ELSE IF t.name = "read_email"
    THEN IF ret.file = NoFile THEN FailureResponse(t, "Email file not found")
         ELSE IF po = "parsed" THEN SuccessResponse(t)
         ELSE IF po = "failed" THEN FailureResponse(t, "Parse failed")
         ELSE Handled(t, po)
    ELSE IF ret.paths = <<>>
         THEN FailureResponse(t, "Email thread not found or thread has no email files")
         ELSE IF po \in {"parsed", "failed"} THEN SuccessResponse(t)
         ELSE Handled(t, po)

\* call_tool from the return of the core, or its exception, to the response.
ToolRespond ==
    /\ tool.state = "core"
    /\ Idle
    /\ ret.kind # "pending"
    /\ \E po \in ParseOutcomes :
          tool' = IF ret.kind # "value" THEN Handled(tool, ret.kind)
                  ELSE Envelope(tool, po)
    /\ UNCHANGED <<resolveVars, attachVars, readVars>>

InitTool == InitIndex(ToolStores, {TRUE}) /\ InitAttach /\ InitRead

NextTool ==
    \/ ToolCall
    \/ ToolRespond
    \/ ThreadStep
    \/ QueryEmailPath
    \/ FindArchive
    \/ FindTimeout
    \/ QueryConversationId
    \/ QueryThreadMessageIds
    \/ IndexToggles

SpecTool == InitTool /\ [][NextTool]_vars

\* The core of the finished call raised.
CoreRaised == tool.kind # "text" /\ tool.isStr /\ ret.kind \notin {"value", "pending"}

\* The core of the finished call returned nothing to read.
CoreEmpty ==
    /\ tool.kind # "text" /\ tool.isStr /\ ret.kind = "value"
    /\ IF CoreOf(tool.name) = "gep" THEN ret.file = NoFile ELSE ret.paths = <<>>

\* C20: every finished call of get_email_path, get_thread_paths, read_email
\* or read_thread has returned a response, whatever its arguments and
\* whatever the core did, an exception included; a response of failure
\* carries an error string, a call whose core raised or found nothing is
\* answered with failure, and a success is marked success in its envelope.
C20_BoundaryNeverRaises ==
    tool.state = "done"
    => /\ tool.kind \in {"text", "json"}
       /\ ~tool.success => tool.error # ""
       /\ tool.success => (tool.kind = "json" /\ ~CoreRaised /\ ~CoreEmpty)
       /\ (CoreRaised \/ CoreEmpty \/ ~tool.given \/ ~tool.isStr
             \/ tool.name \notin ToolNames) => ~tool.success

\* A thread tool whose core timed out in find has answered with failure and
\* the exception's text.
C20_Witness ==
    /\ tool.state = "done"
    /\ tool.name = "read_thread"
    /\ ret.kind = "TimeoutExpired"
    /\ tool.kind = "json"
    /\ ~tool.success
    /\ tool.error = "TimeoutExpired"


\* ==========================================================================
\* The working area again: duplicate names, directories, confinement.
\* ==========================================================================

\* A walked attachment part of the filename.
Matches(q, name) == IsAttachment(q) /\ q.fname # NoName /\ q.fname = name

\* The filename matches several parts, the first of them yields no payload
\* and a later one yields one.
LaterPartYields(name) ==
    \E j, k \in 1 .. Len(aop.parts) :
       /\ j < k
       /\ Matches(aop.parts[j], name)
       /\ \A i \in 1 .. j - 1 : ~Matches(aop.parts[i], name)
       /\ ~Yields(aop.parts[j], aop.ext, name)
       /\ Yields(aop.parts[k], aop.ext, name)

\* C21 (as claimed): a requested filename leaves the pending set only upon a
\* successful write, and a requested filename that matches several parts, the
\* first of which yields no payload, is reported in 'not_found' even though a
\* later part of the same filename carries a payload.
C21_LaterDuplicateUnderReported ==
    (aop.kind = "extract" /\ xres.success)
    => \A name \in Range(aop.names) :
          /\ name \notin xres.not_found => name \in ExtractedNames
          /\ LaterPartYields(name) => name \in xres.not_found

\* C21 (amended): a requested filename leaves the pending set only upon a
\* successful write; a first matching part that yields no payload leaves the
\* filename pending, so a later part of the same filename that carries a
\* payload is written, listed in 'extracted' with its own size, and the
\* filename is not reported in 'not_found'.
C21_LaterDuplicateExtracted ==
    (aop.kind = "extract" /\ xres.success)
    => \A name \in Range(aop.names) :
          /\ name \notin xres.not_found => name \in ExtractedNames
          /\ LaterPartYields(name)
                => /\ name \notin xres.not_found
                   /\ \E j \in 1 .. Len(xres.extracted) :
                         /\ xres.extracted[j].filename = name
                         /\ \E k \in 2 .. Len(aop.parts) :
                               /\ Yields(aop.parts[k], aop.ext, name)
                               /\ xres.extracted[j].size_bytes
                                     = PayloadOf(aop.parts[k], aop.ext)

\* Two parts named alike, the first empty, the second written; a second
\* requested filename that no part carries stays in 'not_found'.
C21_Witness ==
    /\ aop.kind = "extract"
    /\ xres.success
    /\ aop.names = <<FnA, FnSlash>>
    /\ LaterPartYields(FnA)
    /\ ExtractedNames = {FnA}
    /\ xres.not_found = {FnSlash}

\* The files on record as written for the message and not yet cleaned up.
WrittenFor(m) == {r.path : r \in {x \in made.files : Named(x.id, <<m>>)}}

\* C22 (as claimed): after a successful extraction for a message its working
\* directory, the base directory joined with the Message-ID stripped of its
\* angle brackets, exists, also when nothing was extracted; and a cleanup of
\* just that message that follows reports it under 'cleaned' with
\* files_removed equal to the number of files written for it and leaves the
\* directory absent.
C22_ExtractCleanupAgree ==
    [][ (aop.kind = "extract" /\ xres.success)
          => /\ MessageDir(aop.id) \in attDirs
             /\ (aop'.kind = "cleanup" /\ aop'.ids = <<aop.id>> /\ cres'.success)
                   => /\ Len(cres'.cleaned) = 1
                      /\ cres'.cleaned[1].message_id = aop.id
                      /\ cres'.cleaned[1].files_removed
                            = Cardinality(WrittenFor(aop.id))
                      /\ cres'.not_found = <<>>
                      /\ MessageDir(aop.id) \notin attDirs' ]_vars

\* Strictly below the attachment base directory.
BelowBase(p) == IsPathPrefix(BasePath, p) /\ p # BasePath

\* C23 (as claimed): every file an extraction writes is a direct child of the
\* message's directory, which lies strictly below the attachment base
\* directory, and a cleanup removes only directories and files strictly below
\* the base directory, never the base directory itself or anything outside.
C23_ConfinedBelowBase ==
    [][ /\ aop'.kind = "extract"
           => \A f \in attFiles' \ attFiles :
                 /\ f.dir = MessageDir(aop'.id)
                 /\ BelowBase(f.dir)
        /\ aop'.kind = "cleanup"
           => /\ \A d \in attDirs \ attDirs' : BelowBase(d)
              /\ \A f \in attFiles \ attFiles' : BelowBase(f.dir) ]_vars


\* ==========================================================================
\* The resolver again: several rows of one Message-ID.
\* ==========================================================================

\* The archive file of the row itself, <ROWID>.emlx in the row's mailbox
\* directory, is on disk and the row's mailbox URL is one the resolver reads.
RowResolvable(i) ==
    /\ ~Unresolvable(messages[i])
    /\ \E f \in emlx :
          /\ f.dir = MboxPath(MailboxUrl(messages[i].mailbox))
          /\ f.rowid = messages[i].rowid

\* The files get_email_path may return for the Message-ID.
ResolvesTo(m) ==
    UNION { FindFiles(MboxPath(MailboxUrl(messages[i].mailbox)), messages[i].rowid) :
               i \in {k \in MatchingRows(NormalizeId(m)) : ~Unresolvable(messages[k])} }

\* C24 (as claimed): when the index holds several rows for the Message-ID and
\* at least one of them has a recognized mailbox URL and its archive file on
\* disk, a get_email_path call that returns gives a file, not None.
C24_AnyRowResolves ==
    ( /\ call.op = "gep"
      /\ ret.kind = "value"
      /\ Cardinality(MatchingRows(NormalizeId(call.arg))) >= 2
      /\ \E i \in MatchingRows(NormalizeId(call.arg)) : RowResolvable(i) )
    => ret.file # NoFile

\* C25 (as claimed): when get_email_path returns a file for a Message-ID,
\* get_thread_paths for that Message-ID returns a sequence that is not empty
\* and holds that file, whatever the conversation identifier of the row;
\* stated for a Message-ID that one row carries and one file answers.
C25_SeedInOwnThread ==
    ( /\ call.op = "thread"
      /\ ret.kind = "value"
      /\ Cardinality(MatchingRows(NormalizeId(call.arg))) = 1
      /\ Cardinality(ResolvesTo(call.arg)) = 1 )
    => /\ ret.paths # <<>>
       /\ \E j \in 1 .. Len(ret.paths) : ret.paths[j] \in ResolvesTo(call.arg)

\* C26 (as claimed): a returned get_thread_paths result holds no archive file
\* twice, also when two rows of the conversation carry one Message-ID.
C26_NoFileTwice ==
    (call.op = "thread" /\ ret.kind = "value")
    => \A j, k \in 1 .. Len(ret.paths) :
          (j # k /\ ret.paths[j] # NoFile) => ret.paths[j] # ret.paths[k]


\* ==========================================================================
\* Extraction again: output paths, and what the parser lists.
\* ==========================================================================

\* C27 (as claimed): after a successful extraction every entry of 'extracted'
\* names an output path of its own, and the file at that path holds that
\* entry's payload, its length the entry's size_bytes, also when two
\* requested filenames differ only in characters that are written as '_'.
C27_DistinctOutputPaths ==
    (aop.kind = "extract" /\ xres.success)
    => /\ \A j, k \in 1 .. Len(xres.extracted) :
             j # k => xres.extracted[j].safe_filename
                         # xres.extracted[k].safe_filename
       /\ \A j \in 1 .. Len(xres.extracted) :
             \E f \in attFiles :
                /\ f.dir = MessageDir(aop.id)
                /\ f.name = xres.extracted[j].safe_filename
                /\ f.size = xres.extracted[j].size_bytes

\* msg.walk() of the message of an archive file: its parts, or the message
\* itself when it is not multipart.
WalkOf(ar) ==
    LET parts == PartsOf(ReadRaw(ar.lines))
    IN IF ar.multi \/ parts = <<>> THEN parts ELSE <<parts[1]>>

\* The filenames extract_attachments extracts from the archive file when
\* asked for every filename its parts carry, the Attachments directory absent.
ExtractableNames(ar) ==
    LET walk == WalkOf(ar)
        names == [j \in 1 .. Len(walk) |-> walk[j].fname]
        st == WalkParts(walk, 1, StartWalk(names, {}),
                        DirsAfterMkdir({<<>>, TmpPath}, MessageDirLex(IdA)),
                        MessageDir(IdA), NoExt, 0)
    IN {st.extracted[j].filename : j \in 1 .. Len(st.extracted)}

\* C28 (as claimed): every filename that extract_attachments can extract
\* from an archive file is in the attachments list parse_email_file returns
\* for that file, for single-part and multi-part messages alike.
C28_ParseListsExtractable ==
    Parsed
    => \A name \in ExtractableNames(parseIn) :
          \E j \in 1 .. Len(parseOut.attachments) :
             parseOut.attachments[j].filename = name

\* ------------------------------------------------------- the reader again
\* The lines of the mail object of a container: those that carry its bytes.
MailLines(lines) == SelectSeq(Tail(lines), CarriesPart)

\* A container: the size line, the lines of the mail object, then the lines
\* of the trailer, if any.
IsContainer(lines) ==
    /\ Len(lines) >= 2
    /\ \A j, k \in 2 .. Len(lines) :
          (j < k /\ ~CarriesPart(lines[j])) => ~CarriesPart(lines[k])

\* C29 (as claimed): the raw message read from a container is exactly the
\* lines of its mail object, also when one of them holds a trailer token or
\* the trailer opens on the line of the mail object's last bytes.
C29_ReaderKeepsMailObject ==
    (parseIn.exists /\ parseIn.readable /\ IsContainer(parseIn.lines)
       /\ parseOut.kind # "none")
    => parseOut.raw = MailLines(parseIn.lines)


\* ==========================================================================
\* Cleanup again: what a result accounts for.
\* ==========================================================================

\* How often the Message-ID is in the list.
RECURSIVE CountIn(_, _)
CountIn(L, m) ==
    IF L = <<>> THEN 0
    ELSE (IF Head(L) = m THEN 1 ELSE 0) + CountIn(Tail(L), m)

CleanedIds == [j \in 1 .. Len(cres.cleaned) |-> cres.cleaned[j].message_id]

\* C30: a successful cleanup result holds every position of the list once,
\* under 'cleaned' or under 'not_found', and no directory reported under
\* 'cleaned' exists any more; a cleanup that fails returns a failure result
\* with an error text, and the directories it removed before the failure
\* stay removed.
C30_CleanupAccountsForAll ==
    aop.kind = "cleanup"
    => /\ cres.success
          => /\ Len(cres.cleaned) + Len(cres.not_found) = Len(aop.ids)
             /\ \A m \in Range(aop.ids) :
                   CountIn(CleanedIds, m) + CountIn(cres.not_found, m)
                      = CountIn(aop.ids, m)
             /\ \A j \in 1 .. Len(cres.cleaned) :
                   /\ MessageDir(cres.cleaned[j].message_id) \notin attDirs
                   /\ MessageDir(cres.cleaned[j].message_id) \in aop.removed
       /\ ~cres.success
          => /\ cres.error # ""
             /\ cres.cleaned = <<>>
             /\ \E k \in 1 .. Len(aop.ids) :
                   /\ MessageDir(aop.ids[k]) \in attDirs
                   /\ \A j \in 1 .. k - 1 :
                         MessageDir(aop.ids[j]) \notin attDirs
       /\ aop.removed \cap attDirs = {}

\* A cleanup of two messages whose second removal failed: the first
\* directory is gone, the second is there.
C30_Witness ==
    /\ aop.kind = "cleanup"
    /\ ~cres.success
    /\ Len(aop.ids) = 2
    /\ MessageDir(aop.ids[1]) \in aop.removed
    /\ MessageDir(aop.ids[2]) \in attDirs

====
